---- MODULE Spec2Model ----
(***************************************************************************)
(* Model of app2.py, the Wialon logistics order uploader: extraction of a  *)
(* delivery manifest (read_pdf_to_df), order building (convert_to_orders)  *)
(* and the remote submission protocol (login_to_wialon, send_orders,       *)
(* optimize_route, update_route_paths), driven by run_wialon_uploader.     *)
(*                                                                         *)
(* Text is modelled as a sequence of tokens: a token is a word, a number,  *)
(* a marker such as "LAT:", or one white-space character (" " or "\n").    *)
(* Concatenation of text is concatenation of the sequences.  A cell that   *)
(* pdfplumber leaves out is NoneCell; pandas' missing value is NaNStr.     *)
(* pandas is modelled with the semantics of the 1.x/2.x line, where        *)
(* astype(str) turns a missing cell into the text "None".                  *)
(*                                                                         *)
(* Spec is the run of run_wialon_uploader; SpecFn applies                  *)
(* extract_coordinates, the page scan and the region join of               *)
(* read_pdf_to_df, and convert_to_orders to arguments of their own.        *)
(***************************************************************************)
EXTENDS Integers, Sequences, FiniteSets, TLC

(***************************************************************************)
(* Text helpers                                                            *)
(***************************************************************************)
NoneCell == <<"<None>">>
NaNStr == <<"<NaN>">>

IsSpace(t) == t \in {" ", "\n"}

\* bool(c) of a cell: None and "" are false
Truthy(c) == c # NoneCell /\ c # <<>>

\* str(c)
Str(c) == IF c = NoneCell THEN <<"None">> ELSE IF c = NaNStr THEN <<"nan">> ELSE c

RECURSIVE LStrip(_)
LStrip(s) == IF s # <<>> /\ IsSpace(Head(s)) THEN LStrip(Tail(s)) ELSE s

RECURSIVE RStrip(_)
RStrip(s) ==
    IF s # <<>> /\ IsSpace(s[Len(s)]) THEN RStrip(SubSeq(s, 1, Len(s) - 1)) ELSE s

\* str.strip()
Strip(s) == RStrip(LStrip(s))

\* str.upper(), token by token; tokens written in lower or mixed case in the
\* manifests of this model are listed, every other token is its own upper case
UpperTok(t) ==
    CASE t = "rep" -> "REP"
      [] t = "Tonnage" -> "TONNAGE"
      [] t = "tonnage" -> "TONNAGE"
      [] t = "Amount" -> "AMOUNT"
      [] t = "Mileage" -> "MILEAGE"
      [] t = "mileage" -> "MILEAGE"
      [] t = "Fixed" -> "FIXED"
      [] t = "Cartons" -> "CARTONS"
      [] t = "Driver" -> "DRIVER"
      [] t = "Sign" -> "SIGN"
      [] t = "Sales" -> "SALES"
      [] t = "Order" -> "ORDER"
      [] t = "Booking" -> "BOOKING"
      [] t = "Acme" -> "ACME"
      [] t = "Bora" -> "BORA"
      [] t = "Nairobi" -> "NAIROBI"
      [] t = "None" -> "NONE"
      [] t = "nan" -> "NAN"
      [] OTHER -> t

Upper(s) == [i \in 1..Len(s) |-> UpperTok(s[i])]

\* str.replace("\n", " ")
ReplaceNewline(s) == [i \in 1..Len(s) |-> IF s[i] = "\n" THEN " " ELSE s[i]]

\* str.replace(tok, ""), for a one-token marker
RemoveTok(s, tok) == SelectSeq(s, LAMBDA t : t # tok)

\* s.startswith(p)
StartsWith(s, p) == Len(s) >= Len(p) /\ SubSeq(s, 1, Len(p)) = p

\* p occurs in s as a contiguous piece (the "in" of str, re.search of a literal)
Contains(s, p) ==
    \E i \in 1..(Len(s) - Len(p) + 1) : SubSeq(s, i, i + Len(p) - 1) = p

\* the length of the white-space run that starts at position i of s
RECURSIVE SpaceRun(_, _)
SpaceRun(s, i) == IF i <= Len(s) /\ IsSpace(s[i]) THEN 1 + SpaceRun(s, i + 1) ELSE 0

\* Series.replace(r"\s*\n\s*", " ", regex=True): every maximal white-space run
\* that holds a newline becomes one blank, other runs stay as they are
RECURSIVE CollapseNewlines(_)
CollapseNewlines(s) ==
    IF s = <<>> THEN <<>>
    ELSE IF IsSpace(Head(s))
         THEN LET n == SpaceRun(s, 1)
                  run == SubSeq(s, 1, n)
                  rest == SubSeq(s, n + 1, Len(s))
              IN  (IF \E i \in 1..n : run[i] = "\n" THEN <<" ">> ELSE run)
                  \o CollapseNewlines(rest)
         ELSE <<Head(s)>> \o CollapseNewlines(Tail(s))

(***************************************************************************)
(* Numbers: float(text).  A float is [k |-> "num", v |-> thousandths],     *)
(* [k |-> "nan"] for float("nan"); NoFloat is a failed parse (ValueError). *)
(***************************************************************************)
Num(v) == [k |-> "num", v |-> v]
NaNFloat == [k |-> "nan", v |-> 0]
NoFloat == [k |-> "none", v |-> 0]

FloatTok(t) ==
    CASE t = "0" -> Num(0)
      [] t = "1" -> Num(1000)
      [] t = "2" -> Num(2000)
      [] t = "3" -> Num(3000)
      [] t = "-1" -> Num(-1000)
      [] t = "2.5" -> Num(2500)
      [] t = "1.001" -> Num(1001)
      [] t = "100" -> Num(100000)
      [] t = "nan" -> NaNFloat
      [] OTHER -> NoFloat

\* float(s): white space around the literal is accepted, anything else is not
Float(s) == LET x == Strip(s) IN IF Len(x) = 1 THEN FloatTok(x[1]) ELSE NoFloat

REQUIRED_COLUMNS ==
    { <<"REP">>, <<"CUSTOMER", " ", "ID">>, <<"CUSTOMER", " ", "NAME">>,
      <<"LOCATION">>, <<"COORDINATES">>, <<"INVOICE", " ", "NO.">>,
      <<"AMOUNT">>, <<"TONNAGE">> }

\* the position of the first occurrence of tok in s, 0 when there is none
RECURSIVE IndexOf(_, _, _)
IndexOf(s, tok, i) ==
    IF i > Len(s) THEN 0 ELSE IF s[i] = tok THEN i ELSE IndexOf(s, tok, i + 1)

\* extract_coordinates that gives up one component only
extract_coordinates_each(coord_str) ==
    IF coord_str = NoneCell \/ coord_str = NaNStr
    THEN [lat |-> NoFloat, lon |-> NoFloat]
    ELSE IF Contains(coord_str, <<"LAT:">>) /\ Contains(coord_str, <<"LONG:">>)
    THEN LET p == IndexOf(coord_str, "LONG:", 1)
             part0 == SubSeq(coord_str, 1, p - 1)
             after == SubSeq(coord_str, p + 1, Len(coord_str))
             q == IndexOf(after, "LONG:", 1)
             part1 == IF q = 0 THEN after ELSE SubSeq(after, 1, q - 1)
         IN  [lat |-> Float(RemoveTok(part0, "LAT:")), lon |-> Float(part1)]
    ELSE [lat |-> NoFloat, lon |-> NoFloat]

\* extract_coordinates(coord_str) -> [lat, lon], both NoFloat for (None, None)
extract_coordinates(coord_str) ==
    IF coord_str = NoneCell \/ coord_str = NaNStr
    THEN [lat |-> NoFloat, lon |-> NoFloat]
    ELSE IF Contains(coord_str, <<"LAT:">>) /\ Contains(coord_str, <<"LONG:">>)
    THEN LET p == IndexOf(coord_str, "LONG:", 1)
             part0 == SubSeq(coord_str, 1, p - 1)
             after == SubSeq(coord_str, p + 1, Len(coord_str))
             q == IndexOf(after, "LONG:", 1)
             part1 == IF q = 0 THEN after ELSE SubSeq(after, 1, q - 1)
             lat == Float(RemoveTok(part0, "LAT:"))
             lon == Float(part1)
         IN  IF lat = NoFloat \/ lon = NoFloat
             THEN [lat |-> NoFloat, lon |-> NoFloat]
             ELSE [lat |-> lat, lon |-> lon]
    ELSE [lat |-> NoFloat, lon |-> NoFloat]

(***************************************************************************)
(* read_pdf_to_df.  A pdf is a sequence of pages, a page a sequence of     *)
(* tables, a table a sequence of rows, a row a sequence of cells.          *)
(***************************************************************************)
Banner == <<"Sales", " ", "Order", " ", "Booking">>

NoisePatterns == { <<"FIXED">>, <<"DRIVER", " ", "SIGN">>, <<"MILEAGE">>, <<"CARTONS">> }

SeqToSet(s) == {s[i] : i \in 1..Len(s)}

\* clean_column_names(cols)
clean_column_names(cols) ==
    LET kept == SelectSeq(cols, Truthy)
    IN  [i \in 1..Len(kept) |-> Strip(ReplaceNewline(Str(kept[i])))]

\* lines 34-37: the first row of tbl that qualifies as the header, 0 if none
RECURSIVE HeaderRowIndex(_, _)
HeaderRowIndex(tbl, i) ==
    IF i > Len(tbl) THEN 0
    ELSE IF tbl[i] # <<>> /\ Truthy(tbl[i][1]) /\ ~StartsWith(tbl[i][1], Banner)
         THEN i
         ELSE HeaderRowIndex(tbl, i + 1)

\* line 41: any(str(c).strip() for c in r)
NonBlankRow(r) == \E i \in 1..Len(r) : Strip(Str(r[i])) # <<>>

\* the tables of a pdf in reading order, each with its 0-based page number
RECURSIVE FlattenTables(_, _)
FlattenTables(pdf, i) ==
    IF i > Len(pdf) THEN <<>>
    ELSE [j \in 1..Len(pdf[i]) |-> [page |-> i - 1, tbl |-> pdf[i][j]]]
         \o FlattenTables(pdf, i + 1)

\* lines 29-41: header is <<>> while it is None
RECURSIVE ScanTables(_, _, _, _)
ScanTables(tables, k, header, all_rows) ==
    IF k > Len(tables) THEN [header |-> header, all_rows |-> all_rows]
    ELSE LET tbl == tables[k].tbl
             first == tables[k].page = 0 /\ header = <<>>
             h == HeaderRowIndex(tbl, 1)
             header2 == IF first /\ h # 0 THEN clean_column_names(tbl[h]) ELSE header
             data == IF first
                     THEN (IF header2 # <<>> THEN Tail(tbl) ELSE <<>>)
                     ELSE tbl
         IN  ScanTables(tables, k + 1, header2,
                        all_rows \o SelectSeq(data, NonBlankRow))

RECURSIVE MaxLen(_)
MaxLen(rows) ==
    IF rows = <<>> THEN 0
    ELSE LET m == MaxLen(Tail(rows))
         IN  IF Len(Head(rows)) > m THEN Len(Head(rows)) ELSE m

\* pd.DataFrame pads a short row with missing cells
PadRow(r, w) == [i \in 1..w |-> IF i <= Len(r) THEN r[i] ELSE NoneCell]

\* line 47: a cell of the row is one of the column titles
IsHeaderRepeat(r) == \E i \in 1..Len(r) : Upper(Strip(Str(r[i]))) \in REQUIRED_COLUMNS

\* line 48: a cell of the row holds one of the noise markers
IsNoiseRow(r) ==
    \E i \in 1..Len(r) : \E p \in NoisePatterns : Contains(Upper(Str(r[i])), p)

\* line 49: the positions of the columns whose name is a required one
RECURSIVE RequiredIdx(_, _)
RequiredIdx(names, i) ==
    IF i > Len(names) THEN <<>>
    ELSE (IF Upper(Strip(names[i])) \in REQUIRED_COLUMNS THEN <<i>> ELSE <<>>)
         \o RequiredIdx(names, i + 1)

HasDuplicates(s) == \E i, j \in 1..Len(s) : i # j /\ s[i] = s[j]

CUSTOMER_ID == <<"CUSTOMER", " ", "ID">>
COORDINATES == <<"COORDINATES">>

(***************************************************************************)
(* The boundary dataset kenya-counties-simplified.geojson is data outside  *)
(* the source: here a sequence of named boxes in thousandths of a degree.  *)
(***************************************************************************)
Counties ==
    << [shapeName |-> <<"Kiambu">>, x1 |-> 1500, x2 |-> 2700, y1 |-> -1500, y2 |-> 3500],
       [shapeName |-> <<"Nairobi">>, x1 |-> 500, x2 |-> 1500, y1 |-> -1500, y2 |-> 3500] >>

\* shapely "within": the point lies in the interior of the polygon
Within(lon, lat, c) == c.x1 < lon /\ lon < c.x2 /\ c.y1 < lat /\ lat < c.y2

\* the order of region names that sort_values uses; a missing region is last
NameRank(n) ==
    CASE n = <<"Kiambu">> -> 1
      [] n = <<"Nairobi">> -> 2
      [] n = NaNStr -> 99
      [] OTHER -> 50

\* line 59: DBSCAN with min_samples=1 labels the connected components of the
\* 5 km neighbourhood graph in order of first appearance.  The coordinates
\* of this model are at least half a degree apart, so a component is a set
\* of rows with the same point.
RECURSIVE ClusterLabels(_, _)
ClusterLabels(pts, done) ==
    IF Len(done) = Len(pts) THEN done
    ELSE LET i == Len(done) + 1
             same == {j \in 1..Len(done) : pts[j] = pts[i]}
             fresh == Cardinality({done[j] : j \in 1..Len(done)})
         IN  ClusterLabels(pts,
                 Append(done, IF same = {} THEN fresh
                              ELSE done[CHOOSE j \in same : TRUE]))

\* line 63: gpd.sjoin(how="left", predicate="within"), one output row for each
\* polygon that holds the point, one row with a missing region for none
RECURSIVE SJoin(_, _)
SJoin(rows, counties) ==
    IF rows = <<>> THEN <<>>
    ELSE LET r == Head(rows)
             hit == SelectSeq(counties, LAMBDA c : Within(r.LONG.v, r.LAT.v, c))
             out == IF hit = <<>>
                    THEN << [r EXCEPT !.County = NaNStr] >>
                    ELSE [i \in 1..Len(hit) |-> [r EXCEPT !.County = hit[i].shapeName]]
         IN  out \o SJoin(Tail(rows), counties)

\* line 64: sort_values("Correct County"): by name, missing last, equal keys in
\* their given order
RECURSIVE InsertSorted(_, _)
InsertSorted(sorted, r) ==
    IF sorted = <<>> THEN <<r>>
    ELSE IF NameRank(Head(sorted).County) <= NameRank(r.County)
         THEN <<Head(sorted)>> \o InsertSorted(Tail(sorted), r)
         ELSE <<r>> \o sorted

RECURSIVE SortByCounty(_)
SortByCounty(rows) ==
    IF rows = <<>> THEN <<>>
    ELSE InsertSorted(SortByCounty(SubSeq(rows, 1, Len(rows) - 1)), rows[Len(rows)])

Raise(e) == [ok |-> FALSE, err |-> e, gdf |-> <<>>]

NoValidData == "ValueError: PDF parsing failed - no valid data found."

\* lines 47-48: the rows that are neither a repeated header nor noise
DropRows(rows) ==
    SelectSeq(SelectSeq(rows, LAMBDA r : ~IsHeaderRepeat(r)), LAMBDA r : ~IsNoiseRow(r))

\* the position of column n
ColumnOf(names, n) == CHOOSE i \in 1..Len(names) : names[i] = n

\* lines 51-52: every kept cell as text, newline runs collapsed, trimmed; line
\* 53 then drops nothing, since no cell is missing any more
CleanCells(names, rows, keep) ==
    [i \in 1..Len(rows) |->
        [n \in SeqToSet(names) |->
            Strip(CollapseNewlines(Str(rows[i][keep[ColumnOf(names, n)]])))]]

CoordRecord(cells, c) ==
    [cells |-> cells, LAT |-> c.lat, LONG |-> c.lon, Cluster |-> 0, County |-> NaNStr]

\* line 55
AddCoordinates(rows) ==
    [i \in 1..Len(rows) |-> CoordRecord(rows[i], extract_coordinates(rows[i][COORDINATES]))]

\* line 56: dropna(subset=["LAT","LONG"])
DropNoCoordinates(rows) ==
    SelectSeq(rows, LAMBDA r : r.LAT.k = "num" /\ r.LONG.k = "num")

\* lines 58-59
WithClusters(rows, labels) == [i \in 1..Len(rows) |-> [rows[i] EXCEPT !.Cluster = labels[i]]]

Points(rows) == [i \in 1..Len(rows) |-> <<rows[i].LAT, rows[i].LONG>>]

\* lines 58-68
Enrich(names, rows, counties) ==
    IF rows = <<>> THEN Raise("ValueError: Found array with 0 sample(s)")
    ELSE IF ~(REQUIRED_COLUMNS \subseteq SeqToSet(names)) THEN Raise("KeyError: not in index")
    ELSE [ok |-> TRUE, err |-> "",
          gdf |-> SortByCounty(SJoin(WithClusters(rows, ClusterLabels(Points(rows), <<>>)),
                                     counties))]

\* lines 51-56
NormalizeFrame(names, rows, keep, counties) ==
    IF HasDuplicates(names) THEN Raise("AttributeError: str")
    ELSE IF CUSTOMER_ID \notin SeqToSet(names) THEN Raise("KeyError: CUSTOMER ID")
    ELSE IF COORDINATES \notin SeqToSet(names) THEN Raise("KeyError: COORDINATES")
    ELSE IF rows = <<>> THEN Raise("ValueError: empty frame")
    ELSE Enrich(names, DropNoCoordinates(AddCoordinates(CleanCells(names, rows, keep))),
                counties)

\* lines 49-50: the required columns, their names trimmed and upper-cased
RestrictColumns(names0, rows, keep, counties) ==
    NormalizeFrame([i \in 1..Len(keep) |-> Upper(Strip(names0[keep[i]]))], rows, keep,
                   counties)

\* lines 46-48: pd.DataFrame(all_rows, columns=...) and the two row filters
BuildFrame(names0, all_rows, width, counties) ==
    IF Len(names0) # width THEN Raise("ValueError: columns passed")
    ELSE RestrictColumns(names0,
                         DropRows([i \in 1..Len(all_rows) |-> PadRow(all_rows[i], width)]),
                         RequiredIdx(names0, 1), counties)

\* lines 43-46
CheckScan(scan, counties) ==
    IF scan.header = <<>> \/ scan.all_rows = <<>> THEN Raise(NoValidData)
    ELSE BuildFrame(clean_column_names(scan.header), scan.all_rows, MaxLen(scan.all_rows),
                    counties)

\* read_pdf_to_df(pdf_file) with the boundary dataset it loads
read_pdf_to_df(pdf, counties) ==
    CheckScan(ScanTables(FlattenTables(pdf, 1), 1, <<>>, <<>>), counties)

(***************************************************************************)
(* assign_assets_ui and convert_to_orders                                  *)
(***************************************************************************)
Unassigned == <<"Unassigned">>
INVOICE_NO == <<"INVOICE", " ", "NO">>
CUSTOMER_NAME == <<"CUSTOMER", " ", "NAME">>
AMOUNT == <<"AMOUNT">>
TONNAGE == <<"TONNAGE">>

\* line 71: the regions present in the frame, missing regions left out
FrameCounties(gdf) == {gdf[i].County : i \in 1..Len(gdf)} \ {NaNStr}

\* str(x) of a float, as the f-string of line 172 prints it
FloatRepr(f) ==
    CASE f = Num(-1000) -> "-1.0"
      [] f = Num(0) -> "0.0"
      [] f = Num(1000) -> "1.0"
      [] f = Num(1001) -> "1.001"
      [] f = Num(2000) -> "2.0"
      [] f = Num(2500) -> "2.5"
      [] f = Num(3000) -> "3.0"
      [] f = Num(100000) -> "100.0"
      [] OTHER -> "nan"

\* the sequence number of an order that has no 'sequence' key
NoSequence == 0

\* OrderPayload with an id other than the sentinel
OrderPayloadNoSentinel(r, lat, lon, w, asset, tf, tt) ==
    [ itemId |-> 25601229,
      id |-> 1,
      n |-> r.cells[CUSTOMER_NAME],
      a |-> Str(r.County) \o <<" ", "(LAT:", FloatRepr(lat), ",", " ", "LONG:",
                                FloatRepr(lon), ")">>,
      w |-> w,
      c |-> r.cells[AMOUNT],
      cid |-> r.cells[CUSTOMER_ID],
      uic |-> r.cells[INVOICE_NO],
      rp |-> IF asset # <<>> THEN asset ELSE Unassigned,
      tf |-> tf,
      tt |-> tt,
      y |-> lat,
      x |-> lon,
      callMode |-> "create",
      routing_mode |-> "optimal",
      path_type |-> "optimal",
      sequence |-> NoSequence ]

\* lines 164-196: the order payload (the fields that are fixed literals and
\* take no part in any decision are itemId, trt, r, tz, cm and the empty ones)
OrderPayload(r, lat, lon, w, asset, tf, tt) ==
    [ itemId |-> 25601229,
      id |-> 0,
      n |-> r.cells[CUSTOMER_NAME],
      a |-> Str(r.County) \o <<" ", "(LAT:", FloatRepr(lat), ",", " ", "LONG:",
                                FloatRepr(lon), ")">>,
      w |-> w,
      c |-> r.cells[AMOUNT],
      cid |-> r.cells[CUSTOMER_ID],
      uic |-> r.cells[INVOICE_NO],
      rp |-> IF asset # <<>> THEN asset ELSE Unassigned,
      tf |-> tf,
      tt |-> tt,
      y |-> lat,
      x |-> lon,
      callMode |-> "create",
      routing_mode |-> "optimal",
      path_type |-> "optimal",
      sequence |-> NoSequence ]

\* the floats x of this model, in thousandths, whose double product x * 1000
\* falls just below the whole number: 1.001 * 1000 is 1000.9999999999999
ProductJustBelow == { 1001 }

\* int(x * 1000) of line 162: the double product, cut off towards zero
IntTimesThousand(f) == IF f.v \in ProductJustBelow THEN f.v - 1 ELSE f.v

\* line 162: [ok, w]; ok is FALSE when float() or int() raises ValueError
Weight(r) ==
    IF TONNAGE \in DOMAIN r.cells /\ r.cells[TONNAGE] # <<>>
    THEN LET f == Float(r.cells[TONNAGE])
         IN  IF f.k = "num" THEN [ok |-> TRUE, w |-> IntTimesThousand(f)]
             ELSE [ok |-> FALSE, w |-> 0]
    ELSE [ok |-> TRUE, w |-> 0]

Fail(e) == [ok |-> FALSE, err |-> e, orders |-> <<>>]

\* AssetOf that finds no entry for any region
AssetOfNoEntry(county_asset, county) == <<>>

\* line 163: county_asset.get(county, "")
AssetOf(county_asset, county) ==
    IF county \in DOMAIN county_asset THEN county_asset[county] ELSE <<>>

\* lines 161-197 for one record r with coordinates c and weight w; rest is
\* what the loop makes of the records after r
ConvertRow(r, c, w, asset, tf, tt, rest) ==
    IF c.lat = NoFloat THEN rest
    ELSE IF ~w.ok THEN Fail("ValueError: float")
    ELSE IF CUSTOMER_NAME \notin DOMAIN r.cells THEN Fail("KeyError: CUSTOMER NAME")
    ELSE IF AMOUNT \notin DOMAIN r.cells THEN Fail("KeyError: AMOUNT")
    ELSE IF CUSTOMER_ID \notin DOMAIN r.cells THEN Fail("KeyError: CUSTOMER ID")
    ELSE IF INVOICE_NO \notin DOMAIN r.cells THEN Fail("KeyError: INVOICE NO")
    ELSE IF ~rest.ok THEN rest
    ELSE [ok |-> TRUE, err |-> "",
          orders |-> <<OrderPayload(r, c.lat, c.lon, w.w, asset, tf, tt)>> \o rest.orders]

\* convert_to_orders(gdf, tf, tt, county_asset)
RECURSIVE convert_to_orders(_, _, _, _)
convert_to_orders(gdf, tf, tt, county_asset) ==
    IF gdf = <<>> THEN [ok |-> TRUE, err |-> "", orders |-> <<>>]
    ELSE IF COORDINATES \notin DOMAIN Head(gdf).cells THEN Fail("KeyError: COORDINATES")
    ELSE ConvertRow(Head(gdf), extract_coordinates(Head(gdf).cells[COORDINATES]),
                    Weight(Head(gdf)), AssetOf(county_asset, Head(gdf).County), tf, tt,
                    convert_to_orders(Tail(gdf), tf, tt, county_asset))

\* the sequences over S of length n at most
RECURSIVE SeqsUpTo(_, _)
SeqsUpTo(S, n) ==
    IF n = 0 THEN {<<>>}
    ELSE LET shorter == SeqsUpTo(S, n - 1)
         IN  shorter \cup {Append(q, x) : q \in {t \in shorter : Len(t) = n - 1}, x \in S}

(***************************************************************************)
(* Manifests of the model                                                  *)
(***************************************************************************)
HeaderRow ==
    << <<"REP">>, <<"CUSTOMER", " ", "ID">>, <<"CUSTOMER", "\n", "NAME">>,
       <<"LOCATION">>, <<"COORDINATES">>, <<"INVOICE", " ", "NO.">>,
       <<"Amount">>, <<" ", "TONNAGE">> >>

BannerRow ==
    << <<"Sales", " ", "Order", " ", "Booking", " ", "Report">>, <<>>, <<>>, <<>>,
       <<>>, <<>>, <<>>, <<>> >>

Coord(lat, lon) == <<"LAT:", " ", lat, " ", "LONG:", " ", lon>>

\* Acme, in Nairobi, tonnage 2
RowAcme ==
    << <<"R1">>, <<"C1">>, <<"Acme">>, <<"Nairobi">>, Coord("-1", "1"),
       <<"INV1">>, <<"100">>, <<"2">> >>

\* Bora, in Kiambu, tonnage 2.5
RowBora ==
    << <<"R1">>, <<"C2">>, <<"Bora">>, <<"Thika">>, Coord("1", "2"),
       <<"INV2">>, <<"100">>, <<"2.5">> >>

\* Cafe, in Kiambu, no tonnage
RowCafe ==
    << <<"R2">>, <<"C3">>, <<"Cafe">>, <<"Ruiru", "\n", " ", "East">>, Coord("0", "2.5"),
       <<"INV3">>, <<"100">>, <<>> >>

\* Duka, outside every region
RowDuka ==
    << <<"R2">>, <<"C4">>, <<"Duka">>, <<"Far">>, Coord("3", "3"),
       <<"INV4">>, <<"100">>, <<"1">> >>

\* a row whose CUSTOMER ID cell is empty
RowNoCustomer ==
    << <<"R1">>, <<>>, <<"Ghost">>, <<"Nairobi">>, Coord("1", "1"),
       <<"INV5">>, <<"100">>, <<"1">> >>

\* a row whose coordinate text does not parse
RowBadCoord ==
    << <<"R1">>, <<"C6">>, <<"Lost">>, <<"Nairobi">>, <<"LAT:", " ", "x", " ", "LONG:", " ", "1">>,
       <<"INV6">>, <<"100">>, <<"1">> >>

NoiseRow ==
    << <<"Total", " ", "Mileage">>, <<>>, <<>>, <<>>, <<>>, <<>>, <<>>, <<>> >>

BlankRow == << <<>>, <<" ">>, <<>>, <<>>, <<>>, <<>>, <<>>, <<>> >>

OnePage(rows) == << << rows >> >>

Pdfs ==
    { OnePage(<<HeaderRow, RowAcme>>),
      OnePage(<<HeaderRow, RowAcme, NoiseRow>>),
      OnePage(<<HeaderRow, RowAcme, RowBora>>),
      OnePage(<<HeaderRow, RowBora, RowCafe>>),
      OnePage(<<HeaderRow, RowAcme, RowBora, RowCafe>>),
      OnePage(<<HeaderRow, RowBora, RowDuka, RowCafe>>),
      OnePage(<<HeaderRow, RowAcme, RowNoCustomer>>),
      OnePage(<<HeaderRow, RowBadCoord, RowBora>>),
      OnePage(<<HeaderRow, RowBadCoord>>),
      OnePage(<<HeaderRow, NoiseRow, BlankRow>>),
      OnePage(<<HeaderRow>>),
      OnePage(<<BannerRow>>),
      OnePage(<<BannerRow, HeaderRow, RowAcme>>),
      << << <<HeaderRow, RowAcme>> >>, << <<RowBora, BlankRow>> >> >>,
      << >> }

\* the frame with its invoice column under the key that line 176 reads
RekeyRecord(r) ==
    [r EXCEPT !.cells =
        [n \in (DOMAIN r.cells \ {<<"INVOICE", " ", "NO.">>}) \cup {INVOICE_NO} |->
            IF n = INVOICE_NO THEN r.cells[<<"INVOICE", " ", "NO.">>] ELSE r.cells[n]]]

Rekey(gdf) == [i \in 1..Len(gdf) |-> RekeyRecord(gdf[i])]

\* frames handed to assign_assets_ui and convert_to_orders directly
DirectPdfs ==
    { OnePage(<<HeaderRow, RowAcme>>),
      OnePage(<<HeaderRow, RowBora, RowCafe>>),
      OnePage(<<HeaderRow, RowAcme, RowBora, RowDuka>>),
      OnePage(<<HeaderRow, RowBora, RowDuka>>) }

\* a frame whose only record has a coordinate text that does not parse, which
\* line 161 passes over
NoCoordFrame ==
    LET r == Rekey(read_pdf_to_df(OnePage(<<HeaderRow, RowAcme>>), Counties).gdf)[1]
    IN  << [r EXCEPT !.cells[COORDINATES] = <<"LAT:", " ", "x">>] >>

DirectFrames ==
    { Rekey(read_pdf_to_df(p, Counties).gdf) : p \in DirectPdfs } \cup { NoCoordFrame }

\* what the operator may type into an asset field
AssetTexts == { <<>>, <<"T1">> }

\* lines 252-254: the delivery day's window, in seconds
TF == 86400
TT == 172800

\* the TONNAGE cell of a manifest row: numbers, an empty cell, a cell that
\* pdfplumber left out, and text that is no number
TonnageCells ==
    { <<"2">>, <<"2.5">>, <<"1.001">>, <<" ", "2", "\n">>, <<>>, NoneCell, <<"N/A">>, <<"nan">> }

WithTonnage(row, t) == [row EXCEPT ![8] = t]

\* the frame without one of its columns
RECURSIVE DropColumn(_, _)
DropColumn(frame, n) ==
    IF frame = <<>> THEN <<>>
    ELSE << [Head(frame) EXCEPT !.cells =
                [m \in DOMAIN Head(frame).cells \ {n} |-> Head(frame).cells[m]]] >>
         \o DropColumn(Tail(frame), n)

\* frames of two records for convert_to_orders applied on its own
ConvertFrames ==
    LET two == { Rekey(read_pdf_to_df(OnePage(<<HeaderRow, WithTonnage(a, t1),
                                                WithTonnage(b, t2)>>), Counties).gdf) :
                    a \in {RowAcme, RowDuka}, b \in {RowBora}, t1 \in TonnageCells,
                    t2 \in TonnageCells }
    IN  two \cup { DropColumn(f, TONNAGE) : f \in two }

\* region -> asset mappings, some without an entry for a region of the frame
AssetMappings ==
    UNION { [S -> AssetTexts \cup { <<" ">> }] : S \in SUBSET { <<"Kiambu">>, <<"Nairobi">> } }

\* the longest first-page table of a scan applied on its own
MaxTableLen == 3

\* a data row whose first cell is empty
RowNoRep ==
    << <<>>, <<"C7">>, <<"Nemo">>, <<"Nairobi">>, Coord("1", "1"),
       <<"INV7">>, <<"100">>, <<"1">> >>

ScanRows == { BannerRow, HeaderRow, RowAcme, RowNoRep }

\* one table on the first page, with or without a second page
ScanPdfs ==
    { << << t >> >> : t \in SeqsUpTo(ScanRows, MaxTableLen) }
    \cup { << << t >>, << <<RowBora, BlankRow>> >> >> : t \in SeqsUpTo(ScanRows, MaxTableLen) }

\* the longest coordinate text, in tokens, that is not of the proper form
MaxCoordLen == 5

CoordTokens == { "LAT:", "LONG:", "1", "x", "nan", " " }

\* coordinate texts: every short text over the tokens, the texts of the form
\* 'LAT: a LONG: b', and the two values that are no text
CoordTexts ==
    SeqsUpTo(CoordTokens, MaxCoordLen)
    \cup { Coord(a, b) : a, b \in { "1", "-1", "2.5", "x", "nan" } }
    \cup { NoneCell, NaNStr }

\* the boundary dataset with one region inside the other
OverlapCounties ==
    << [shapeName |-> <<"Kiambu">>, x1 |-> 500, x2 |-> 2700, y1 |-> -1500, y2 |-> 3500],
       [shapeName |-> <<"Nairobi">>, x1 |-> 500, x2 |-> 1500, y1 |-> -1500, y2 |-> 3500] >>

\* the most records handed to the region join applied on its own
MaxRecords == 3

\* the record of a manifest row as lines 46-59 leave it, before the join
RecordOf(row) == read_pdf_to_df(OnePage(<<HeaderRow, row>>), <<>>).gdf[1]

IsInjective(q) == \A i, j \in 1..Len(q) : q[i] = q[j] => i = j

JoinInputs ==
    { [rows |-> q, counties |-> d] :
         q \in { t \in SeqsUpTo({ RecordOf(RowAcme), RecordOf(RowBora), RecordOf(RowCafe),
                                   RecordOf(RowDuka) }, MaxRecords) : IsInjective(t) },
         d \in { Counties, OverlapCounties } }

ConvertInputs ==
    { [gdf |-> f, tf |-> TF, tt |-> TT, county_asset |-> ca] :
         f \in ConvertFrames, ca \in AssetMappings }

(***************************************************************************)
(* The run: run_wialon_uploader, lines 256-264, and the functions it calls *)
(***************************************************************************)
\* order ids the remote service may hand out are 1..MaxId
MaxId == 2
\* the longest ordering list an optimization response carries
MaxRespLen == 2

Ids == 1..MaxId

\* the ordering lists of an optimization response
RespLists == SeqsUpTo(Ids, MaxRespLen)

VARIABLES
    pc,                \* the position of the run
    pdf,               \* the uploaded manifest
    gdf,               \* the frame read_pdf_to_df returned
    county_asset,      \* the operator's region -> asset texts
    orders,            \* the order dicts, in batch order
    sid,               \* the session identifier, 0 before login
    ci,                \* send_orders: position of the create loop
    created_orders,    \* send_orders: positions (in orders) of the created orders
    groups,            \* optimize_route: orders_by_resource, in insertion order
    gi,                \* optimize_route: position of the group loop
    optimized_orders,  \* optimize_route: the list it builds
    ui,                \* update_route_paths: position of its loop
    inflight,          \* requests sent whose response has not arrived
    calls,             \* every request sent so far, in order
    resps,             \* the responses received so far, resps[i] answering calls[i]
    msgs,              \* what the operator has been shown, in order
    failedAt,          \* the position at which the run was aborted, "" if none
    clock,             \* the time that time.sleep has let pass, in seconds
    arg,               \* the argument of a function that is applied on its own
    ret                \* and what it returned

vars == << pc, pdf, gdf, county_asset, orders, sid, ci, created_orders, groups, gi,
           optimized_orders, ui, inflight, calls, resps, msgs, failedAt, clock, arg, ret >>

Req(svc, order, id, members, ids, resource, departure) ==
    [svc |-> svc, order |-> order, id |-> id, members |-> members, ids |-> ids,
     resource |-> resource, departure |-> departure, at |-> 0]

Resp(kind, id, list) == [kind |-> kind, id |-> id, list |-> list]

Recv(r) ==
    /\ inflight' = <<>>
    /\ resps' = Append(resps, r)

Msg(level, kind, order, resource) ==
    [level |-> level, kind |-> kind, order |-> order, resource |-> resource]

NoFunction == [x \in {} |-> <<>>]

Init ==
    /\ \/ pc = "read_pdf" /\ pdf \in Pdfs /\ gdf = <<>>
       \/ pc = "assign" /\ pdf = <<>> /\ gdf \in DirectFrames
    /\ county_asset = NoFunction
    /\ orders = <<>>
    /\ sid = 0
    /\ ci = 0
    /\ created_orders = <<>>
    /\ groups = <<>>
    /\ gi = 0
    /\ optimized_orders = <<>>
    /\ ui = 0
    /\ inflight = <<>>
    /\ calls = <<>>
    /\ resps = <<>>
    /\ msgs = <<>>
    /\ failedAt = ""
    /\ clock = 0
    /\ arg = <<>>
    /\ ret = <<>>

\* line 263-264: an exception that reaches run_wialon_uploader
Abort(e) ==
    /\ msgs' = Append(msgs, Msg("error", e, 0, <<>>))
    /\ failedAt' = pc
    /\ pc' = "failed"

\* a request leaves; 'at' is the time of its departure
Send(r) ==
    /\ inflight' = Append(inflight, [r EXCEPT !.at = clock])
    /\ calls' = Append(calls, [r EXCEPT !.at = clock])

\* line 257
ReadPdf ==
    /\ pc = "read_pdf"
    /\ UNCHANGED << clock, arg, ret >>
    /\ \E res \in {read_pdf_to_df(pdf, Counties)} :
           IF res.ok
           THEN /\ gdf' = res.gdf
                /\ pc' = "assign"
                /\ UNCHANGED << msgs, failedAt >>
           ELSE /\ Abort(res.err)
                /\ UNCHANGED gdf
    /\ UNCHANGED << pdf, county_asset, orders, sid, ci, created_orders, groups, gi,
                    optimized_orders, ui, inflight, calls, resps >>

\* line 258: assign_assets_ui, one text per region of the frame
AssignAssets ==
    /\ pc = "assign"
    /\ UNCHANGED << clock, arg, ret >>
    /\ \E ca \in [FrameCounties(gdf) -> AssetTexts] : county_asset' = ca
    /\ pc' = "convert"
    /\ UNCHANGED << pdf, gdf, orders, sid, ci, created_orders, groups, gi,
                    optimized_orders, ui, inflight, calls, resps, msgs, failedAt >>

\* lines 259-260
ConvertToOrders ==
    /\ pc = "convert"
    /\ UNCHANGED << clock, arg, ret >>
    /\ \E res \in {convert_to_orders(gdf, TF, TT, county_asset)} :
           IF res.ok
           THEN /\ orders' = res.orders
                /\ msgs' = Append(msgs, Msg("info", "orders prepared", Len(res.orders), <<>>))
                /\ pc' = "login"
                /\ UNCHANGED failedAt
           ELSE /\ Abort(res.err)
                /\ UNCHANGED orders
    /\ UNCHANGED << pdf, gdf, county_asset, sid, ci, created_orders, groups, gi,
                    optimized_orders, ui, inflight, calls, resps >>

\* line 201: the token/login request leaves
LoginSend ==
    /\ pc = "login"
    /\ UNCHANGED << clock, arg, ret >>
    /\ Send(Req("token/login", 0, 0, <<>>, <<>>, <<>>, 0))
    /\ pc' = "login_wait"
    /\ UNCHANGED << pdf, gdf, county_asset, orders, sid, ci, created_orders, groups, gi,
                    optimized_orders, ui, resps, msgs, failedAt >>

\* LoginRecv without the check of line 203: a response without "eid" is taken
\* for a session
LoginRecvNoCheck ==
    /\ pc = "login_wait"
    /\ UNCHANGED << clock, arg, ret >>
    /\ \E outcome \in {"eid", "no_eid", "raise"} :
         /\ Recv(Resp(outcome, 0, <<>>))
         /\ IF outcome # "raise"
            THEN /\ sid' = 1
                 /\ pc' = "create"
                 /\ ci' = 1
                 /\ UNCHANGED << msgs, failedAt >>
            ELSE /\ Abort("RequestException")
                 /\ UNCHANGED << sid, ci >>
    /\ UNCHANGED << pdf, gdf, county_asset, orders, created_orders, groups, gi,
                    optimized_orders, ui, calls >>

\* lines 201-205 and 262: the response carries "eid", or lacks it, or the
\* exchange raises; with a session the run enters send_orders
LoginRecv ==
    /\ pc = "login_wait"
    /\ UNCHANGED << clock, arg, ret >>
    /\ \E outcome \in {"eid", "no_eid", "raise"} :
         /\ Recv(Resp(outcome, 0, <<>>))
         /\ IF outcome = "eid"
            THEN /\ sid' = 1
                 /\ pc' = "create"
                 /\ ci' = 1
                 /\ UNCHANGED << msgs, failedAt >>
            ELSE /\ Abort(IF outcome = "no_eid" THEN "Login failed" ELSE "RequestException")
                 /\ UNCHANGED << sid, ci >>
    /\ UNCHANGED << pdf, gdf, county_asset, orders, created_orders, groups, gi,
                    optimized_orders, ui, calls >>

\* CreateSend that does not wait for the response before the next order
CreateSendAsync ==
    /\ pc = "create"
    /\ UNCHANGED << clock, arg, ret >>
    /\ ci <= Len(orders)
    /\ Send(Req("order/update", ci, orders[ci].id, <<>>, <<>>, orders[ci].rp, 0))
    /\ ci' = ci + 1
    /\ UNCHANGED << pc, pdf, gdf, county_asset, orders, sid, created_orders, groups, gi,
                    optimized_orders, ui, resps, msgs, failedAt >>

\* line 214: the order/update request for order ci leaves
CreateSend ==
    /\ pc = "create"
    /\ UNCHANGED << clock, arg, ret >>
    /\ ci <= Len(orders)
    /\ Send(Req("order/update", ci, orders[ci].id, <<>>, <<>>, orders[ci].rp, 0))
    /\ pc' = "create_wait"
    /\ UNCHANGED << pdf, gdf, county_asset, orders, sid, ci, created_orders, groups, gi,
                    optimized_orders, ui, resps, msgs, failedAt >>

\* CreateRecv that also keeps an order whose creation returned an error
CreateRecvKeepsFailed ==
    /\ pc = "create_wait"
    /\ UNCHANGED << arg, ret >>
    /\ \/ \E newId \in Ids :
            /\ orders' = [orders EXCEPT ![ci].id = newId]
            /\ created_orders' = Append(created_orders, ci)
            /\ msgs' = Append(msgs, Msg("success", "created", ci, <<>>))
            /\ ci' = ci + 1
            /\ pc' = "create"
            /\ Recv(Resp("id", newId, <<>>))
            /\ clock' = clock + 1
            /\ UNCHANGED failedAt
       \/ /\ msgs' = Append(msgs, Msg("error", "create failed", ci, <<>>))
          /\ created_orders' = Append(created_orders, ci)
          /\ ci' = ci + 1
          /\ pc' = "create"
          /\ Recv(Resp("error", 0, <<>>))
          /\ clock' = clock + 1
          /\ UNCHANGED << orders, failedAt >>
       \/ /\ Abort("RequestException")
          /\ Recv(Resp("raise", 0, <<>>))
          /\ UNCHANGED << orders, created_orders, ci, clock >>
    /\ UNCHANGED << pdf, gdf, county_asset, sid, groups, gi, optimized_orders, ui, calls >>

\* lines 214-224: the response is an id, or a dict with 'error', or the call
\* or its decoding raises, which nothing in send_orders catches; time.sleep(1)
\* of line 224 follows the first two
CreateRecv ==
    /\ pc = "create_wait"
    /\ UNCHANGED << arg, ret >>
    /\ \/ \E newId \in Ids :
            /\ orders' = [orders EXCEPT ![ci].id = newId]
            /\ created_orders' = Append(created_orders, ci)
            /\ msgs' = Append(msgs, Msg("success", "created", ci, <<>>))
            /\ ci' = ci + 1
            /\ pc' = "create"
            /\ Recv(Resp("id", newId, <<>>))
            /\ clock' = clock + 1
            /\ UNCHANGED failedAt
       \/ /\ msgs' = Append(msgs, Msg("error", "create failed", ci, <<>>))
          /\ ci' = ci + 1
          /\ pc' = "create"
          /\ Recv(Resp("error", 0, <<>>))
          /\ clock' = clock + 1
          /\ UNCHANGED << orders, created_orders, failedAt >>
       \/ /\ Abort("RequestException")
          /\ Recv(Resp("raise", 0, <<>>))
          /\ UNCHANGED << orders, created_orders, ci, clock >>
    /\ UNCHANGED << pdf, gdf, county_asset, sid, groups, gi, optimized_orders, ui, calls >>

\* lines 83-88: orders_by_resource as a list of groups in insertion order
RECURSIVE GroupByResource(_, _, _)
GroupByResource(ords, list, acc) ==
    IF list = <<>> THEN acc
    ELSE LET o == Head(list)
             at == {g \in 1..Len(acc) : acc[g].resource = ords[o].rp}
         IN  GroupByResource(ords, Tail(list),
                 IF at = {}
                 THEN Append(acc, [resource |-> ords[o].rp, members |-> <<o>>])
                 ELSE LET g == CHOOSE x \in at : TRUE
                      IN  [acc EXCEPT ![g].members = Append(@, o)])

\* the threshold of line 92 off by one
SkipsOnlyEmpty(members) == Len(members) < 1

\* line 92: a group of fewer than two orders is passed through
SkipsOptimization(members) == Len(members) < 2

\* CreateDone without the test of line 226
CreateDoneUnguarded ==
    /\ pc = "create"
    /\ UNCHANGED << clock, arg, ret >>
    /\ ci > Len(orders)
    /\ msgs' = Append(msgs, Msg("info", "optimizing", 0, <<>>))
    /\ groups' = GroupByResource(orders, created_orders, <<>>)
    /\ gi' = 1
    /\ pc' = "optimize"
    /\ UNCHANGED << pdf, gdf, county_asset, orders, sid, ci, created_orders,
                    optimized_orders, ui, inflight, calls, resps, failedAt >>

\* lines 226-229 and 83-90: the create loop is over
CreateDone ==
    /\ pc = "create"
    /\ UNCHANGED << clock, arg, ret >>
    /\ ci > Len(orders)
    /\ IF created_orders # <<>>
       THEN /\ msgs' = Append(msgs, Msg("info", "optimizing", 0, <<>>))
            /\ groups' = GroupByResource(orders, created_orders, <<>>)
            /\ gi' = 1
            /\ pc' = "optimize"
       ELSE /\ pc' = "done"
            /\ UNCHANGED << msgs, groups, gi >>
    /\ UNCHANGED << pdf, gdf, county_asset, orders, sid, ci, created_orders,
                    optimized_orders, ui, inflight, calls, resps, failedAt >>

\* OptimizeSkip that leaves the skipped group out of the result
OptimizeSkipDrops ==
    /\ pc = "optimize"
    /\ UNCHANGED << clock, arg, ret >>
    /\ gi <= Len(groups)
    /\ SkipsOptimization(groups[gi].members)
    /\ gi' = gi + 1
    /\ UNCHANGED << pc, pdf, gdf, county_asset, orders, sid, ci, created_orders, groups,
                    optimized_orders, ui, inflight, calls, resps, msgs, failedAt >>

\* lines 92-94
OptimizeSkip ==
    /\ pc = "optimize"
    /\ UNCHANGED << clock, arg, ret >>
    /\ gi <= Len(groups)
    /\ SkipsOptimization(groups[gi].members)
    /\ optimized_orders' = optimized_orders \o groups[gi].members
    /\ gi' = gi + 1
    /\ UNCHANGED << pc, pdf, gdf, county_asset, orders, sid, ci, created_orders, groups,
                    ui, inflight, calls, resps, msgs, failedAt >>

\* lines 97-104: the optimization request of a group
OptimizationRequest(ords, g) ==
    Req("order/optimize", 0, 0, g.members,
        [i \in 1..Len(g.members) |-> ords[g.members[i]].id],
        g.resource, ords[g.members[1]].tf)

\* lines 108-111
OptimizeSend ==
    /\ pc = "optimize"
    /\ UNCHANGED << clock, arg, ret >>
    /\ gi <= Len(groups)
    /\ ~SkipsOptimization(groups[gi].members)
    /\ Send(OptimizationRequest(orders, groups[gi]))
    /\ pc' = "optimize_wait"
    /\ UNCHANGED << pdf, gdf, county_asset, orders, sid, ci, created_orders, groups, gi,
                    optimized_orders, ui, resps, msgs, failedAt >>

\* lines 117-120: the first order of the group with this id, 0 if none
RECURSIVE FirstWithId(_, _, _, _)
FirstWithId(ords, members, id, i) ==
    IF i > Len(members) THEN 0
    ELSE IF ords[members[i]].id = id THEN members[i]
         ELSE FirstWithId(ords, members, id, i + 1)

\* ApplySequence with the 0-based index of enumerate
RECURSIVE ApplySequenceZeroBased(_, _, _, _)
ApplySequenceZeroBased(ords, members, list, idx) ==
    IF idx > Len(list) THEN ords
    ELSE LET o == FirstWithId(ords, members, list[idx], 1)
         IN  ApplySequenceZeroBased(
                 IF o = 0 THEN ords ELSE [ords EXCEPT ![o].sequence = idx - 1],
                 members, list, idx + 1)

\* lines 116-120: the sequence numbers a returned ordering list assigns
RECURSIVE ApplySequence(_, _, _, _)
ApplySequence(ords, members, list, idx) ==
    IF idx > Len(list) THEN ords
    ELSE LET o == FirstWithId(ords, members, list[idx], 1)
         IN  ApplySequence(IF o = 0 THEN ords ELSE [ords EXCEPT ![o].sequence = idx],
                           members, list, idx + 1)

\* OptimizeRecv without the try/except of lines 106-127
OptimizeRecvUncaught ==
    /\ pc = "optimize_wait"
    /\ UNCHANGED << clock, arg, ret >>
    /\ \/ \E list \in RespLists :
            /\ orders' = ApplySequence(orders, groups[gi].members, list, 1)
            /\ Recv(Resp("list", 0, list))
            /\ optimized_orders' = optimized_orders \o groups[gi].members
            /\ gi' = gi + 1
            /\ pc' = "optimize"
            /\ UNCHANGED << msgs, failedAt >>
       \/ /\ msgs' = Append(msgs, Msg("warning", "optimization failed", 0, groups[gi].resource))
          /\ Recv(Resp("no_orders", 0, <<>>))
          /\ optimized_orders' = optimized_orders \o groups[gi].members
          /\ gi' = gi + 1
          /\ pc' = "optimize"
          /\ UNCHANGED << orders, failedAt >>
       \/ /\ Abort("RequestException")
          /\ Recv(Resp("raise", 0, <<>>))
          /\ UNCHANGED << orders, optimized_orders, gi >>
    /\ UNCHANGED << pdf, gdf, county_asset, sid, ci, created_orders, groups, ui, calls >>

\* lines 112-127: the response carries 'orders', or lacks it, or the call,
\* its decoding or the walk over the field raises
OptimizeRecv ==
    /\ pc = "optimize_wait"
    /\ UNCHANGED << clock, arg, ret >>
    /\ \/ \E list \in RespLists :
            /\ orders' = ApplySequence(orders, groups[gi].members, list, 1)
            /\ Recv(Resp("list", 0, list))
            /\ UNCHANGED msgs
       \/ /\ msgs' = Append(msgs, Msg("warning", "optimization failed", 0, groups[gi].resource))
          /\ Recv(Resp("no_orders", 0, <<>>))
          /\ UNCHANGED orders
       \/ /\ msgs' = Append(msgs, Msg("warning", "optimization error", 0, groups[gi].resource))
          /\ Recv(Resp("raise", 0, <<>>))
          /\ UNCHANGED orders
    /\ optimized_orders' = optimized_orders \o groups[gi].members
    /\ gi' = gi + 1
    /\ pc' = "optimize"
    /\ UNCHANGED << pdf, gdf, county_asset, sid, ci, created_orders, groups, ui, calls,
                    failedAt >>

\* lines 129 and 231-233: optimize_route returns, update_route_paths starts
OptimizeDone ==
    /\ pc = "optimize"
    /\ UNCHANGED << clock, arg, ret >>
    /\ gi > Len(groups)
    /\ msgs' = Append(msgs, Msg("info", "updating", 0, <<>>))
    /\ ui' = 1
    /\ pc' = "update"
    /\ UNCHANGED << pdf, gdf, county_asset, orders, sid, ci, created_orders, groups, gi,
                    optimized_orders, inflight, calls, resps, failedAt >>

\* lines 138-147: the order/route_update request of one order
UpdateSend ==
    /\ pc = "update"
    /\ UNCHANGED << clock, arg, ret >>
    /\ ui <= Len(optimized_orders)
    /\ Send(Req("order/route_update", optimized_orders[ui],
                orders[optimized_orders[ui]].id, <<>>, <<>>, <<>>, 0))
    /\ pc' = "update_wait"
    /\ UNCHANGED << pdf, gdf, county_asset, orders, sid, ci, created_orders, groups, gi,
                    optimized_orders, ui, resps, msgs, failedAt >>

\* UpdateRecv without the try/except of lines 136-153
UpdateRecvUncaught ==
    /\ pc = "update_wait"
    /\ UNCHANGED << arg, ret >>
    /\ \/ /\ Recv(Resp("ok", 0, <<>>))
          /\ ui' = ui + 1
          /\ pc' = "update"
          /\ clock' = clock + 1
          /\ UNCHANGED << msgs, failedAt >>
       \/ /\ Recv(Resp("error", 0, <<>>))
          /\ msgs' = Append(msgs, Msg("warning", "route update failed", optimized_orders[ui], <<>>))
          /\ ui' = ui + 1
          /\ pc' = "update"
          /\ clock' = clock + 1
          /\ UNCHANGED failedAt
       \/ /\ Recv(Resp("raise", 0, <<>>))
          /\ Abort("RequestException")
          /\ UNCHANGED << ui, clock >>
    /\ UNCHANGED << pdf, gdf, county_asset, orders, sid, ci, created_orders, groups, gi,
                    optimized_orders, calls >>

\* lines 149-155: the response is fine, or a dict with 'error', or the call or
\* its decoding raises; time.sleep(1) of line 155 follows each of them
UpdateRecv ==
    /\ pc = "update_wait"
    /\ UNCHANGED << arg, ret >>
    /\ \/ /\ Recv(Resp("ok", 0, <<>>))
          /\ UNCHANGED msgs
       \/ /\ Recv(Resp("error", 0, <<>>))
          /\ msgs' = Append(msgs, Msg("warning", "route update failed", optimized_orders[ui], <<>>))
       \/ /\ Recv(Resp("raise", 0, <<>>))
          /\ msgs' = Append(msgs, Msg("warning", "route update error", optimized_orders[ui], <<>>))
    /\ clock' = clock + 1
    /\ ui' = ui + 1
    /\ pc' = "update"
    /\ UNCHANGED << pdf, gdf, county_asset, orders, sid, ci, created_orders, groups, gi,
                    optimized_orders, calls, failedAt >>

\* line 235
UpdateDone ==
    /\ pc = "update"
    /\ UNCHANGED << clock, arg, ret >>
    /\ ui > Len(optimized_orders)
    /\ msgs' = Append(msgs, Msg("success", "routes optimized", 0, <<>>))
    /\ pc' = "done"
    /\ UNCHANGED << pdf, gdf, county_asset, orders, sid, ci, created_orders, groups, gi,
                    optimized_orders, ui, inflight, calls, resps, failedAt >>

Next ==
    \/ ReadPdf
    \/ AssignAssets
    \/ ConvertToOrders
    \/ LoginSend
    \/ LoginRecv
    \/ CreateSend
    \/ CreateRecv
    \/ CreateDone
    \/ OptimizeSkip
    \/ OptimizeSend
    \/ OptimizeRecv
    \/ OptimizeDone
    \/ UpdateSend
    \/ UpdateRecv
    \/ UpdateDone

Spec == Init /\ [][Next]_vars

(***************************************************************************)
(* The functions applied on their own: the argument is drawn from a        *)
(* bounded set, one step applies the function and keeps what it returned.  *)
(***************************************************************************)
\* nothing of a run has happened
ProtocolIdle ==
    /\ pdf = <<>> /\ gdf = <<>> /\ county_asset = NoFunction /\ orders = <<>>
    /\ sid = 0 /\ ci = 0 /\ created_orders = <<>> /\ groups = <<>> /\ gi = 0
    /\ optimized_orders = <<>> /\ ui = 0 /\ inflight = <<>> /\ calls = <<>>
    /\ resps = <<>> /\ msgs = <<>> /\ failedAt = "" /\ clock = 0

FnInit ==
    /\ \/ pc = "call_convert_to_orders" /\ arg \in ConvertInputs
       \/ pc = "call_scan" /\ arg \in ScanPdfs
       \/ pc = "call_extract_coordinates" /\ arg \in CoordTexts
       \/ pc = "call_sjoin" /\ arg \in JoinInputs
    /\ ret = <<>>
    /\ ProtocolIdle

\* what a step of a function applied on its own leaves alone
Returns(fn) ==
    /\ pc' = fn
    /\ UNCHANGED << arg, pdf, gdf, county_asset, orders, sid, ci, created_orders, groups,
                    gi, optimized_orders, ui, inflight, calls, resps, msgs, failedAt,
                    clock >>

\* lines 157-198
CallConvertToOrders ==
    /\ pc = "call_convert_to_orders"
    /\ ret' = convert_to_orders(arg.gdf, arg.tf, arg.tt, arg.county_asset)
    /\ Returns("ret_convert_to_orders")

\* lines 29-41 of read_pdf_to_df: header and all_rows as line 43 finds them
ScanPages ==
    /\ pc = "call_scan"
    /\ ret' = ScanTables(FlattenTables(arg, 1), 1, <<>>, <<>>)
    /\ Returns("ret_scan")

\* lines 14-23
CallExtractCoordinates ==
    /\ pc = "call_extract_coordinates"
    /\ ret' = extract_coordinates(arg)
    /\ Returns("ret_extract_coordinates")

\* lines 61-64 of read_pdf_to_df: the join with the regions and the sort
JoinRegions ==
    /\ pc = "call_sjoin"
    /\ ret' = SortByCounty(SJoin(arg.rows, arg.counties))
    /\ Returns("ret_sjoin")

FnNext ==
    \/ CallConvertToOrders
    \/ ScanPages
    \/ CallExtractCoordinates
    \/ JoinRegions

SpecFn == FnInit /\ [][FnNext]_vars

(***************************************************************************)
(* Vocabulary of the properties                                            *)
(***************************************************************************)
Range(q) == {q[i] : i \in 1..Len(q)}

CallIdx(svc) == {i \in 1..Len(calls) : calls[i].svc = svc}
Answered(i) == i <= Len(resps)

CreateCallsOf(k) == {i \in CallIdx("order/update") : calls[i].order = k}
UpdateCallsOf(k) == {i \in CallIdx("order/route_update") : calls[i].order = k}
OptCallsOf(r) == {i \in CallIdx("order/optimize") : calls[i].resource = r}

CreateSucceeded(k) == \E i \in CreateCallsOf(k) : Answered(i) /\ resps[i].kind = "id"
CreateFailed(k) == \E i \in CreateCallsOf(k) : Answered(i) /\ resps[i].kind # "id"

HasMsg(m) == \E i \in 1..Len(msgs) : msgs[i] = m

StrictlyIncreasing(q) == \A i, j \in 1..Len(q) : i < j => q[i] < q[j]

\* the created orders that carry resource r, in creation order
MembersOf(r) == SelectSeq(created_orders, LAMBDA k : orders[k].rp = r)
ResourcesOfCreated == {orders[k].rp : k \in Range(created_orders)}

ListAnswered(i) ==
    i \in CallIdx("order/optimize") /\ Answered(i) /\ resps[i].kind = "list"
OptFailed(i) ==
    i \in CallIdx("order/optimize") /\ Answered(i) /\ resps[i].kind \in {"no_orders", "raise"}
UpdateFailed(i) ==
    i \in CallIdx("order/route_update") /\ Answered(i) /\ resps[i].kind \in {"error", "raise"}

PerOrderKinds == {"created", "create failed", "route update failed", "route update error"}

\* the frame is one read_pdf_to_df returned: its invoice column is 'INVOICE NO.'
FromExtraction ==
    gdf # <<>> /\ \A i \in 1..Len(gdf) : <<"INVOICE", " ", "NO.">> \in DOMAIN gdf[i].cells

ExtractionFailed == pc # "read_pdf" /\ gdf = <<>>
LoginFailed == \E i \in CallIdx("token/login") : Answered(i) /\ resps[i].kind # "eid"

(***************************************************************************)
(* C1.  A failed create call for order k is reported for order k alone,    *)
(* order k is left out of the created set, and every later order of the    *)
(* batch still gets its create call, whatever the outcome of each call     *)
(* (an id, an error response, a call that raises): the batch is never      *)
(* aborted by one order's creation failure.                                *)
(***************************************************************************)
C1_CreateFailureIsolated ==
    /\ \A k \in 1..Len(orders) :
         CreateFailed(k) =>
            /\ k \notin Range(created_orders)
            /\ HasMsg(Msg("error", "create failed", k, <<>>))
    /\ (pc \in {"done", "failed"} /\ sid # 0) =>
          \A k \in 1..Len(orders) : CreateCallsOf(k) # {}

(***************************************************************************)
(* C2.  The created set is exactly the sub-sequence, in batch order, of    *)
(* the orders whose create call succeeded, each holding the id the remote  *)
(* service returned; every id carried by an optimization or path-update    *)
(* request is that of an order of the created set, so an order whose       *)
(* creation failed is never optimized nor path-updated.                    *)
(***************************************************************************)
C2_CreatedSetExact ==
    /\ StrictlyIncreasing(created_orders)
    /\ Range(created_orders) = {k \in 1..Len(orders) : CreateSucceeded(k)}
    /\ \A k \in Range(created_orders) :
          \E i \in CreateCallsOf(k) :
             Answered(i) /\ resps[i].kind = "id" /\ orders[k].id = resps[i].id
    /\ \A i \in CallIdx("order/optimize") :
          \A j \in 1..Len(calls[i].members) :
             /\ calls[i].members[j] \in Range(created_orders)
             /\ ~CreateFailed(calls[i].members[j])
             /\ calls[i].ids[j] = orders[calls[i].members[j]].id
    /\ \A i \in CallIdx("order/route_update") :
          /\ calls[i].order \in Range(created_orders)
          /\ ~CreateFailed(calls[i].order)
          /\ calls[i].id = orders[calls[i].order].id

\* three orders, the second fails: two created, one failure reported, one
\* optimization over the two
C2_Witness ==
    /\ pc = "done"
    /\ Len(orders) = 3
    /\ CreateFailed(2)
    /\ created_orders = <<1, 3>>
    /\ Cardinality({i \in 1..Len(msgs) : msgs[i].kind = "create failed"}) = 1
    /\ \E i \in CallIdx("order/optimize") : calls[i].members = <<1, 3>>

(***************************************************************************)
(* C3.  Remote calls occur in the order login, creates, optimizations,     *)
(* path updates; no call other than the login is issued without a session  *)
(* identifier; a call is issued only after every earlier call has          *)
(* returned, so at most one call is in flight; Done has none in flight.    *)
(***************************************************************************)
PhaseOf(svc) ==
    CASE svc = "token/login" -> 1
      [] svc = "order/update" -> 2
      [] svc = "order/optimize" -> 3
      [] svc = "order/route_update" -> 4

C3_PhaseOrder ==
    /\ \A i, j \in 1..Len(calls) : i < j => PhaseOf(calls[i].svc) <= PhaseOf(calls[j].svc)
    /\ Cardinality(CallIdx("token/login")) <= 1
    /\ \A i \in 1..Len(calls) :
          calls[i].svc # "token/login" =>
             /\ sid # 0
             /\ calls[1].svc = "token/login" /\ resps[1].kind = "eid"
    /\ Len(inflight) <= 1
    /\ Len(calls) = Len(resps) + Len(inflight)
    /\ pc = "done" => inflight = <<>>

C3_Witness ==
    /\ pc = "done"
    /\ \A svc \in {"token/login", "order/update", "order/optimize", "order/route_update"} :
          CallIdx(svc) # {}

(***************************************************************************)
(* C4.  If extraction fails no remote call is made; if the login exchange  *)
(* yields no session identifier no create, optimization or path-update     *)
(* call is made; in both cases the run has ended with one top-level        *)
(* failure message and without any per-order outcome.                      *)
(***************************************************************************)
C4_FatalAbort ==
    /\ ExtractionFailed => calls = <<>>
    /\ LoginFailed => \A i \in 1..Len(calls) : calls[i].svc = "token/login"
    /\ (ExtractionFailed \/ LoginFailed) =>
          /\ pc = "failed"
          /\ Cardinality({m \in 1..Len(msgs) : msgs[m].level = "error"}) = 1
          /\ msgs[Len(msgs)].level = "error"
          /\ \A m \in 1..Len(msgs) : msgs[m].kind \notin PerOrderKinds

C4_Witness ==
    /\ LoginFailed
    /\ resps[1].kind = "no_eid"
    /\ Len(orders) >= 2
    /\ pc = "failed"

(***************************************************************************)
(* C5.  Created orders are partitioned by resource.  A resource with fewer *)
(* than two created orders gets no optimization request and its order     *)
(* keeps no sequence; a resource with two or more gets exactly one         *)
(* request, carrying the ids of all its orders and of no other, the        *)
(* resource, and the time-window start of its first order.                 *)
(***************************************************************************)
OptimizeFinished == pc \in {"update", "update_wait", "done"}

C5_Grouping ==
    /\ \A i \in CallIdx("order/optimize") : calls[i].resource \in ResourcesOfCreated
    /\ \A r \in ResourcesOfCreated :
          LET m == MembersOf(r)
          IN  IF Len(m) < 2
              THEN /\ OptCallsOf(r) = {}
                   /\ \A j \in 1..Len(m) : orders[m[j]].sequence = NoSequence
              ELSE /\ Cardinality(OptCallsOf(r)) <= 1
                   /\ OptimizeFinished => Cardinality(OptCallsOf(r)) = 1
                   /\ \A i \in OptCallsOf(r) :
                         /\ calls[i].members = m
                         /\ calls[i].ids = [j \in 1..Len(m) |-> orders[m[j]].id]
                         /\ calls[i].departure = orders[m[1]].tf

C5_Witness ==
    /\ pc = "done"
    /\ \E r1, r2 \in ResourcesOfCreated :
          /\ Len(MembersOf(r1)) = 1
          /\ Len(MembersOf(r2)) = 2
          /\ Cardinality(OptCallsOf(r2)) = 1
          /\ OptCallsOf(r1) = {}

(***************************************************************************)
(* C6.  When the response to a group's optimization request carries an     *)
(* ordering list, every order of the group whose id occurs in the list     *)
(* has sequence = a 1-based position of its id in the list; when the ids   *)
(* of the group are distinct and the list is a permutation of them the     *)
(* sequence numbers are exactly 1..n without repeats; an order outside     *)
(* every such group has no sequence.                                       *)
(***************************************************************************)
GroupIds(i) == {calls[i].ids[j] : j \in 1..Len(calls[i].ids)}
DistinctIds(i) == Cardinality(GroupIds(i)) = Len(calls[i].ids)
IsPermutationOfGroup(i) ==
    /\ DistinctIds(i)
    /\ Len(resps[i].list) = Len(calls[i].ids)
    /\ Range(resps[i].list) = GroupIds(i)

PermutationGivesOneToN ==
    \A i \in 1..Len(calls) :
       (ListAnswered(i) /\ IsPermutationOfGroup(i)) =>
          LET seqs == [j \in 1..Len(calls[i].members) |->
                          orders[calls[i].members[j]].sequence]
          IN  /\ Range(seqs) = 1..Len(calls[i].members)
              /\ \A j \in 1..Len(seqs) : resps[i].list[seqs[j]] = calls[i].ids[j]

OutsideUntouched ==
    \A k \in 1..Len(orders) :
       orders[k].sequence # NoSequence =>
          \E i \in 1..Len(calls) : ListAnswered(i) /\ k \in Range(calls[i].members)

C6_SequenceByPosition ==
    /\ \A i \in 1..Len(calls) :
          ListAnswered(i) =>
             \A j \in 1..Len(calls[i].members) :
                LET o == calls[i].members[j]
                    list == resps[i].list
                IN  orders[o].id \in Range(list) =>
                       /\ orders[o].sequence \in 1..Len(list)
                       /\ list[orders[o].sequence] = orders[o].id
    /\ PermutationGivesOneToN
    /\ OutsideUntouched

(***************************************************************************)
(* C6 as amended.  With an ordering list in the response, an order of the  *)
(* group that is the first of the group (in group order) to hold its id,   *)
(* and whose id occurs in the list, has sequence = the 1-based position of *)
(* the last occurrence of its id in the list; every other order of the     *)
(* group has no sequence; the permutation case and the orders outside the  *)
(* group are as in C6.                                                     *)
(***************************************************************************)
LastPos(list, id) ==
    CHOOSE p \in 1..Len(list) :
       list[p] = id /\ \A q \in 1..Len(list) : list[q] = id => q <= p

C6_SequenceOfFirstHolder ==
    /\ \A i \in 1..Len(calls) :
          ListAnswered(i) =>
             \A j \in 1..Len(calls[i].members) :
                LET o == calls[i].members[j]
                    list == resps[i].list
                    firstHolder == \A j2 \in 1..(j - 1) : calls[i].ids[j2] # calls[i].ids[j]
                IN  IF orders[o].id \in Range(list) /\ firstHolder
                    THEN orders[o].sequence = LastPos(list, orders[o].id)
                    ELSE orders[o].sequence = NoSequence
    /\ PermutationGivesOneToN
    /\ OutsideUntouched

\* a group of two with distinct ids whose optimization returned them reversed
C6_Witness ==
    \E i \in 1..Len(calls) :
       /\ ListAnswered(i)
       /\ IsPermutationOfGroup(i)
       /\ Len(calls[i].members) = 2
       /\ resps[i].list = <<calls[i].ids[2], calls[i].ids[1]>>
       /\ orders[calls[i].members[1]].sequence = 2
       /\ orders[calls[i].members[2]].sequence = 1
       /\ \E k \in Range(created_orders) : k \notin Range(calls[i].members)

(***************************************************************************)
(* C7.  An optimization request that ends in an error, an undecodable      *)
(* response or a response without the ordering field never aborts the run  *)
(* and changes no field of any order of its group; the group keeps its     *)
(* order, a warning names its resource, the remaining groups are processed *)
(* and the path-update phase runs over every created order.                *)
(***************************************************************************)
\* the orders as convert_to_orders built them
Built == convert_to_orders(gdf, TF, TT, county_asset).orders

\* q occurs in s as a contiguous piece
IsPieceOf(q, s) == \E p \in 0..(Len(s) - Len(q)) : SubSeq(s, p + 1, p + Len(q)) = q

C7_OptimizationFailureHarmless ==
    /\ failedAt \notin {"optimize", "optimize_wait"}
    /\ \A i \in 1..Len(calls) :
          OptFailed(i) =>
             /\ pc # "failed"
             /\ \A j \in 1..Len(calls[i].members) :
                   LET o == calls[i].members[j]
                   IN  orders[o] = [Built[o] EXCEPT !.id = orders[o].id]
             /\ calls[i].members = MembersOf(calls[i].resource)
             /\ IsPieceOf(calls[i].members, optimized_orders)
             /\ \/ HasMsg(Msg("warning", "optimization failed", 0, calls[i].resource))
                \/ HasMsg(Msg("warning", "optimization error", 0, calls[i].resource))
             /\ pc = "done" =>
                   /\ gi = Len(groups) + 1
                   /\ Range(optimized_orders) = Range(created_orders)
                   /\ \A k \in Range(created_orders) : UpdateCallsOf(k) # {}
    /\ (pc \in {"optimize", "optimize_wait"} /\ \E i \in 1..Len(calls) : OptFailed(i))
          => ENABLED Next

\* the first group's optimization raised; the group after it was processed
\* and the path updates were made
C7_Witness ==
    /\ pc = "done"
    /\ Len(groups) = 2
    /\ \E i \in 1..Len(calls) :
          /\ OptFailed(i)
          /\ resps[i].kind = "raise"
          /\ calls[i].members = groups[1].members
    /\ Len(optimized_orders) = 3
    /\ Cardinality(CallIdx("order/route_update")) = 3

(***************************************************************************)
(* C8.  update_route_paths issues exactly one path-update request for      *)
(* every created order, whatever happened to its group; a path update that *)
(* returns an error or raises is reported for that order, never aborts the *)
(* run, and every later order still gets its request.                      *)
(***************************************************************************)
UpdateCallOrders ==
    LET upd == SelectSeq(calls, LAMBDA c : c.svc = "order/route_update")
    IN  [j \in 1..Len(upd) |-> upd[j].order]

C8_UpdateCoverage ==
    /\ failedAt \notin {"update", "update_wait"}
    /\ \A k \in 1..Len(orders) :
          /\ Cardinality(UpdateCallsOf(k)) <= 1
          /\ UpdateCallsOf(k) # {} => k \in Range(created_orders)
    /\ pc = "update" => UpdateCallOrders = SubSeq(optimized_orders, 1, ui - 1)
    /\ pc = "update_wait" => UpdateCallOrders = SubSeq(optimized_orders, 1, ui)
    /\ (pc = "done" /\ created_orders # <<>>) =>
          \A k \in Range(created_orders) : Cardinality(UpdateCallsOf(k)) = 1
    /\ \A i \in 1..Len(calls) :
          UpdateFailed(i) =>
             /\ pc # "failed"
             /\ HasMsg(Msg("warning",
                           IF resps[i].kind = "error" THEN "route update failed"
                           ELSE "route update error",
                           calls[i].order, <<>>))

\* the first path update raised, the second returned an error, and the third
\* order, of a group that had been skipped, still got its request
C8_Witness ==
    /\ pc = "done"
    /\ Len(created_orders) = 3
    /\ \E i \in 1..Len(calls) :
          /\ UpdateFailed(i) /\ resps[i].kind = "raise"
          /\ UpdateFailed(i + 1) /\ resps[i + 1].kind = "error"
          /\ i + 2 \in CallIdx("order/route_update")
          /\ Len(MembersOf(orders[calls[i + 2].order].rp)) = 1
    /\ \E i \in 1..Len(calls) : OptFailed(i)

(***************************************************************************)
(* C9.  Every record of the frame that extraction returns has a non-empty  *)
(* customer identifier and a parsed latitude and longitude.                *)
(***************************************************************************)
C9_RecordInvariant ==
    \A i \in 1..Len(gdf) :
       /\ gdf[i].cells[CUSTOMER_ID] # <<>>
       /\ gdf[i].LAT.k = "num"
       /\ gdf[i].LONG.k = "num"

(***************************************************************************)
(* C10.  On a frame that extraction returned, convert_to_orders returns    *)
(* one order per record with coordinates, in record order, each with id 0  *)
(* and the record's customer name, customer id, invoice number and amount; *)
(* the one-row manifest (Acme, tonnage 2) gives one order of weight 2000.  *)
(***************************************************************************)
C10_OrderBuilderTotal ==
    (FromExtraction /\ pc \notin {"read_pdf", "assign", "convert"}) =>
       /\ failedAt # "convert"
       /\ Len(orders) = Len(gdf)
       /\ \A i \in 1..Len(orders) :
             /\ orders[i].n = gdf[i].cells[CUSTOMER_NAME]
             /\ orders[i].cid = gdf[i].cells[CUSTOMER_ID]
             /\ orders[i].uic = gdf[i].cells[<<"INVOICE", " ", "NO.">>]
             /\ orders[i].c = gdf[i].cells[AMOUNT]
       /\ pc = "login" => \A i \in 1..Len(orders) : orders[i].id = 0
       /\ pdf = OnePage(<<HeaderRow, RowAcme>>) => (Len(orders) = 1 /\ orders[1].w = 2000)

(***************************************************************************)
(* C11.  convert_to_orders builds an order for every record of the frame,  *)
(* whatever the tonnage cells hold; the weight of a record's order is its  *)
(* tonnage * 1000 rounded to a whole number when the cell holds a number   *)
(* (2.5 gives 2500), and 0 when the cell is absent, empty or no number.    *)
(***************************************************************************)
Converted == pc = "ret_convert_to_orders"

\* tonnage * 1000 rounded, 0 for a cell that is absent, empty or no number
RoundedWeight(r) ==
    IF TONNAGE \in DOMAIN r.cells /\ Float(r.cells[TONNAGE]).k = "num"
    THEN Float(r.cells[TONNAGE]).v
    ELSE 0

C11_OrderWeight ==
    Converted =>
       /\ ret.ok
       /\ Len(ret.orders) = Len(arg.gdf)
       /\ \A i \in 1..Len(ret.orders) : ret.orders[i].w = RoundedWeight(arg.gdf[i])

(***************************************************************************)
(* C12.  Every order convert_to_orders builds carries as resource the text *)
(* assigned to the record's region when the mapping has an entry for the   *)
(* region and the entry is not blank (the empty text, which is what an     *)
(* asset field left blank holds), and 'Unassigned' when the region is      *)
(* absent, has no entry, or its entry is blank; no resource is empty.      *)
(***************************************************************************)
C12_OrderResource ==
    (Converted /\ ret.ok) =>
       /\ Len(ret.orders) = Len(arg.gdf)
       /\ \A i \in 1..Len(ret.orders) :
             LET county == arg.gdf[i].County
                 ca == arg.county_asset
             IN  /\ ret.orders[i].rp # <<>>
                 /\ IF county # NaNStr /\ county \in DOMAIN ca /\ ca[county] # <<>>
                    THEN ret.orders[i].rp = ca[county]
                    ELSE ret.orders[i].rp = Unassigned

\* one order with the asset of its region, one whose region is absent, the
\* region of a third frame's order without entry or with a blank one
C12_Witness ==
    /\ Converted /\ ret.ok
    /\ Len(ret.orders) = 2
    /\ arg.gdf[1].County = <<"Kiambu">> /\ arg.county_asset = [c \in {<<"Kiambu">>} |-> <<"T1">>]
    /\ ret.orders[1].rp = <<"T1">>
    /\ arg.gdf[2].County = NaNStr
    /\ ret.orders[2].rp = Unassigned

(***************************************************************************)
(* C13.  On the first page the header is the first row whose first cell    *)
(* is non-empty and does not start with the report banner; with h the      *)
(* position of that row, the rows before h are discarded and exactly the   *)
(* rows after h are data; every row of a later page is data.  (A blank     *)
(* row is not data on any page.)                                           *)
(***************************************************************************)
\* the rows that are data by this rule, for one table on the first page
DataAfterHeader(doc) ==
    LET tbl == doc[1][1]
        h == HeaderRowIndex(tbl, 1)
        first == IF h = 0 THEN <<>> ELSE SubSeq(tbl, h + 1, Len(tbl))
        later == IF Len(doc) > 1 THEN doc[2][1] ELSE <<>>
    IN  SelectSeq(first \o later, NonBlankRow)

C13_HeaderDetection ==
    pc = "ret_scan" =>
       LET tbl == arg[1][1]
           h == HeaderRowIndex(tbl, 1)
       IN  /\ ret.header = (IF h = 0 THEN <<>> ELSE clean_column_names(tbl[h]))
           /\ ret.all_rows = DataAfterHeader(arg)

(***************************************************************************)
(* C14.  When no header row was located, or no data row survives the row   *)
(* filters (blank rows, repeated headers, noise rows, rows without a       *)
(* customer id), read_pdf_to_df fails with the error 'no valid data        *)
(* found'; a run that got past extraction holds at least one record.       *)
(***************************************************************************)
\* the run started from an uploaded manifest and read_pdf_to_df has returned
\* or raised
ExtractionOver == pc # "read_pdf" /\ (pdf # <<>> \/ gdf = <<>>)

\* the row holds a customer id in one of the columns titled CUSTOMER ID
HasCustomerId(names, r) ==
    \E i \in 1..Len(names) :
       /\ Upper(Strip(names[i])) = CUSTOMER_ID
       /\ i <= Len(r)
       /\ r[i] # NoneCell
       /\ Strip(r[i]) # <<>>

\* the data rows that survive the four row filters
Survivors(doc) ==
    LET scan == ScanTables(FlattenTables(doc, 1), 1, <<>>, <<>>)
    IN  IF scan.header = <<>> THEN <<>>
        ELSE SelectSeq(DropRows(scan.all_rows),
                       LAMBDA r : HasCustomerId(clean_column_names(scan.header), r))

C14_NoValidDataError ==
    ExtractionOver =>
       /\ Survivors(pdf) = <<>> =>
             /\ pc = "failed"
             /\ failedAt = "read_pdf"
             /\ HasMsg(Msg("error", NoValidData, 0, <<>>))
       /\ failedAt # "read_pdf" => gdf # <<>>

(***************************************************************************)
(* C15.  extract_coordinates returns both components or neither; for text  *)
(* of the form 'LAT: a LONG: b' with numbers a, b it returns (a, b); for   *)
(* input that is no text, lacks the LAT: marker, lacks the LONG: marker,   *)
(* has the markers in the wrong order or a payload that is no number it    *)
(* returns neither.                                                        *)
(***************************************************************************)
Parsed == pc = "ret_extract_coordinates"

IsText(x) == x # NoneCell /\ x # NaNStr
Absent(c) == c.lat = NoFloat /\ c.lon = NoFloat
BothOrNeither(c) == (c.lat = NoFloat) <=> (c.lon = NoFloat)
IsNumber(t) == Float(t).k = "num"

\* the text is 'LAT: a LONG: b', white space aside
HasForm(x, a, b) == IsText(x) /\ RemoveTok(x, " ") = <<"LAT:", a, "LONG:", b>>

\* what follows the first occurrence of a marker, up to the end
After(x, marker) == SubSeq(x, IndexOf(x, marker, 1) + 1, Len(x))
\* what precedes the first occurrence of a marker
Before(x, marker) == SubSeq(x, 1, IndexOf(x, marker, 1) - 1)

FormGivesPair ==
    \A a, b \in { "1", "-1", "2.5" } :
       HasForm(arg, a, b) => ret = [lat |-> FloatTok(a), lon |-> FloatTok(b)]

MarkerMissing ==
    ~IsText(arg) \/ ~Contains(arg, <<"LAT:">>) \/ ~Contains(arg, <<"LONG:">>)

WrongOrder == IndexOf(arg, "LONG:", 1) < IndexOf(arg, "LAT:", 1)

\* the latitude payload stands between LAT: and LONG:, the longitude
\* payload after LONG:
PayloadNoNumber ==
    \/ ~IsNumber(Before(After(arg, "LAT:"), "LONG:"))
    \/ ~IsNumber(After(arg, "LONG:"))

C15_CoordinateParser ==
    Parsed =>
       /\ BothOrNeither(ret)
       /\ FormGivesPair
       /\ MarkerMissing => Absent(ret)
       /\ (~MarkerMissing /\ (WrongOrder \/ PayloadNoNumber)) => Absent(ret)

(***************************************************************************)
(* C15 as amended.  Both components or neither, (a, b) for the proper      *)
(* form, neither for input that is no text or lacks a marker.  With both   *)
(* markers the latitude is read from the text before the first LONG: with  *)
(* every LAT: removed, the longitude from the text between the first       *)
(* LONG: and the next one (or the end); the result is neither exactly when *)
(* float() rejects one of the two, and float() accepts 'nan'.              *)
(***************************************************************************)
LatText == RemoveTok(Before(arg, "LONG:"), "LAT:")
LonText ==
    LET rest == After(arg, "LONG:")
    IN  IF Contains(rest, <<"LONG:">>) THEN Before(rest, "LONG:") ELSE rest

C15_ParserBySplit ==
    Parsed =>
       /\ BothOrNeither(ret)
       /\ FormGivesPair
       /\ MarkerMissing => Absent(ret)
       /\ ~MarkerMissing =>
             IF Float(LatText) = NoFloat \/ Float(LonText) = NoFloat
             THEN Absent(ret)
             ELSE ret = [lat |-> Float(LatText), lon |-> Float(LonText)]

\* a text with LAT: after LONG: only, and numbers where the split looks
C15_Witness ==
    /\ Parsed
    /\ arg = <<"1", "LONG:", "1", "LONG:", "LAT:">>
    /\ ret = [lat |-> Num(1000), lon |-> Num(1000)]

(***************************************************************************)
(* C18.  The region join returns every input record exactly once, with    *)
(* the name of a region that holds its point, or an absent region when     *)
(* none does, ordered by region name, records of one region in their       *)
(* order of input; this for every boundary dataset, overlapping regions    *)
(* included.                                                               *)
(***************************************************************************)
Joined == pc = "ret_sjoin"

\* the positions of the output that hold input record r
CopiesOf(r) == {j \in 1..Len(ret) : [ret[j] EXCEPT !.County = NaNStr] = r}

Holding(r) == {k \in 1..Len(arg.counties) : Within(r.LONG.v, r.LAT.v, arg.counties[k])}

InputPos(r) == CHOOSE i \in 1..Len(arg.rows) : arg.rows[i] = [r EXCEPT !.County = NaNStr]

C18_RegionResolver ==
    Joined =>
       /\ Len(ret) = Len(arg.rows)
       /\ \A i \in 1..Len(arg.rows) : Cardinality(CopiesOf(arg.rows[i])) = 1
       /\ \A j \in 1..Len(ret) :
             IF Holding(ret[j]) = {} THEN ret[j].County = NaNStr
             ELSE \E k \in Holding(ret[j]) : ret[j].County = arg.counties[k].shapeName
       /\ \A j, k \in 1..Len(ret) :
             j < k =>
                /\ NameRank(ret[j].County) <= NameRank(ret[k].County)
                /\ ret[j].County = ret[k].County => InputPos(ret[j]) < InputPos(ret[k])

(***************************************************************************)
(* C16.  An order for which no create call has succeeded has id 0; an      *)
(* order's id is written at most once, by the step that receives the id    *)
(* of its own create call; once an order holds an id, no step changes any  *)
(* of its fields other than sequence.                                      *)
(***************************************************************************)
SentinelUntilCreated ==
    \A k \in 1..Len(orders) : ~CreateSucceeded(k) => orders[k].id = 0

IdWrittenByOwnCreate ==
    \A k \in 1..Len(orders) :
       (Len(orders') = Len(orders) /\ orders'[k].id # orders[k].id) =>
          /\ orders[k].id = 0
          /\ pc = "create_wait"
          /\ inflight = << calls[Len(calls)] >>
          /\ calls[Len(calls)].svc = "order/update"
          /\ calls[Len(calls)].order = k
          /\ resps' = Append(resps, Resp("id", orders'[k].id, <<>>))

OnlySequenceChanges ==
    \A k \in 1..Len(orders) :
       orders[k].id # 0 =>
          /\ Len(orders') = Len(orders)
          /\ orders'[k] = [orders[k] EXCEPT !.sequence = orders'[k].sequence]

C16_IdSentinelAndImmutability ==
    /\ []SentinelUntilCreated
    /\ [][IdWrittenByOwnCreate /\ OnlySequenceChanges]_vars

\* a run that ended with one order never created and another that holds an
\* id and was given a sequence number
C16_Witness ==
    /\ pc = "done"
    /\ \E j, k \in 1..Len(orders) :
          /\ CreateFailed(j) /\ orders[j].id = 0
          /\ orders[k].id # 0 /\ orders[k].sequence # NoSequence
          /\ UpdateCallsOf(k) # {}

(***************************************************************************)
(* C17.  Between two consecutive create calls and between two consecutive  *)
(* path-update calls 1 second passes, and the second is taken after every  *)
(* such call, whether it returned an id, an error, or raised.              *)
(***************************************************************************)
RateLimited(svc) ==
    /\ \A i, j \in CallIdx(svc) : i < j => calls[j].at >= calls[i].at + 1
    /\ \A i \in CallIdx(svc) : Answered(i) => clock >= calls[i].at + 1

C17_RateLimit == RateLimited("order/update") /\ RateLimited("order/route_update")

(***************************************************************************)
(* C19.  The list optimize_route returns is a permutation of the created   *)
(* set in which the orders of one resource stand together, in creation     *)
(* order, whatever the outcome for each group (skipped, ordering list,     *)
(* response without one, raised error); update_route_paths then visits     *)
(* every created order exactly once.                                       *)
(***************************************************************************)
\* the positions of the list that hold orders of resource r
PositionsOf(r) == {p \in 1..Len(optimized_orders) : orders[optimized_orders[p]].rp = r}

Contiguous(P) == \A p, q \in P : \A m \in p..q : m \in P

C19_OptimizePermutation ==
    /\ IsInjective(optimized_orders)
    /\ Range(optimized_orders) \subseteq Range(created_orders)
    /\ OptimizeFinished =>
          /\ Len(optimized_orders) = Len(created_orders)
          /\ Range(optimized_orders) = Range(created_orders)
          /\ \A r \in ResourcesOfCreated :
                /\ Contiguous(PositionsOf(r))
                /\ SelectSeq(optimized_orders, LAMBDA k : orders[k].rp = r) = MembersOf(r)
    /\ (pc = "done" /\ created_orders # <<>>) => UpdateCallOrders = optimized_orders

\* three created orders, the second of another resource than the first and
\* the third: the list is not in creation order; one group's call raised
C19_Witness ==
    /\ pc = "done"
    /\ created_orders = <<1, 2, 3>>
    /\ optimized_orders = <<1, 3, 2>>
    /\ \E i \in 1..Len(calls) : OptFailed(i) /\ resps[i].kind = "raise"

(***************************************************************************)
(* C20.  With an empty created set (an empty batch, or every create call   *)
(* answered by an error) no optimization and no path-update request is     *)
(* issued and 'routes optimized' is not reported; that message is reported *)
(* only with a created order, after the path updates are over.             *)
(***************************************************************************)
RoutesOptimized == Msg("success", "routes optimized", 0, <<>>)

C20_EmptyCreatedSet ==
    /\ created_orders = <<>> =>
          /\ CallIdx("order/optimize") = {}
          /\ CallIdx("order/route_update") = {}
          /\ ~HasMsg(RoutesOptimized)
    /\ HasMsg(RoutesOptimized) =>
          /\ created_orders # <<>>
          /\ pc = "done"
          /\ msgs[Len(msgs)] = RoutesOptimized
          /\ inflight = <<>>
          /\ \A k \in Range(created_orders) : \E i \in UpdateCallsOf(k) : Answered(i)

\* two orders, both create calls answered by an error: the run is over
\* after the two calls
C20_Witness ==
    /\ pc = "done"
    /\ Len(orders) = 2
    /\ CreateFailed(1) /\ CreateFailed(2)
    /\ created_orders = <<>>
    /\ Len(calls) = 3

\* the empty batch: the run is over after the login
EmptyBatchDone == pc = "done" /\ orders = <<>> /\ sid # 0 /\ Len(calls) = 1

====
